---- MODULE Spec2Model ----
(***************************************************************************)
(* Model of django-onmydesk:                                               *)
(*   - onmydesk/models.py       Report.process, results_as_list,           *)
(*                              output_file_handler                        *)
(*   - onmydesk/core/reports.py BaseReport.process                         *)
(* Strings are sequences of one-character strings, so that ';'.join and    *)
(* str.split(';') are computed character by character.                     *)
(***************************************************************************)
EXTENDS Integers, Sequences, FiniteSets, TLC

\* ---------------------------------------------------------------- bounds
MaxCalls == 2      \* invocations of Report.process() in one behaviour
MaxSaves == 2      \* full Model.save() calls made by the caller
MaxTime == 1       \* distinct elapsed times the timer can report
MaxPathLen == 2    \* characters per path in the results_as_list development
MaxListLen == 2    \* paths per list in the results_as_list development
MaxRows == 2       \* rows the dataset yields
MaxOutputs == 2    \* outputs of a report
MaxRuns == 2       \* invocations of BaseReport.process() on one instance

\* ------------------------------------------------------------- constants
STATUS_PENDING == "pending"
STATUS_PROCESSING == "processing"
STATUS_PROCESSED == "processed"
STATUS_ERROR == "error"

STATUS_CHOICES == {STATUS_PENDING, STATUS_PROCESSING, STATUS_PROCESSED, STATUS_ERROR}

\* Python's None and a present value, for the nullable fields.
None == [some |-> FALSE, val |-> <<>>]
Some(v) == [some |-> TRUE, val |-> v]

\* `not x` for a nullable string field: None and '' are both falsy.
Falsy(x) == (~x.some) \/ (x.val = <<>>)

\* ------------------------------------------------------- string helpers
SEP == ";"

RECURSIVE Join(_)
\* ';'.join(L)
Join(L) ==
    IF L = <<>> THEN <<>>
    ELSE IF Len(L) = 1 THEN L[1]
    ELSE L[1] \o <<SEP>> \o Join(Tail(L))

\* index of the first ';' in s, 0 when there is none
FirstSep(s) ==
    IF \E i \in 1..Len(s) : s[i] = SEP
    THEN CHOOSE i \in 1..Len(s) : s[i] = SEP /\ \A j \in 1..(i-1) : s[j] # SEP
    ELSE 0

RECURSIVE Split(_)
\* s.split(';')
Split(s) ==
    LET i == FirstSep(s) IN
    IF i = 0 THEN <<s>>
    ELSE <<SubSeq(s, 1, i-1)>> \o Split(SubSeq(s, i+1, Len(s)))

\* results_as_list without the test of line 111
ResultsAsList_NoGuard(res) == Split(res.val)

\* Report.results_as_list evaluated on a value of the results field
ResultsAsList(res) ==
    IF Falsy(res) THEN <<>> ELSE Split(res.val)


\* ============================================================== state
VARIABLES
    self,                   \* the job record in memory: id, status, process_time, results
    stored,                 \* the persisted row of the record (meaningful once id # 0)
    ONMYDESK_FILE_HANDLER,  \* settings.ONMYDESK_FILE_HANDLER: None or a dotted name
    pc,                     \* position of Report.process: idle, import, run, handle, except
    output_filepaths,       \* report.output_filepaths of the report instance
    local_results,          \* the local list `results` of Report.process
    exc,                    \* exception that left the last Report.process call, or "none"
    outcome,                \* "none", "running", "returned" or "raised"
    faults,                 \* places that raised during the current invocation
    handled,                \* file paths passed to output_file_handler in this invocation
    imports,                \* my_import(self.report) calls of the last invocation
    runs,                   \* report.process() calls of the last invocation
    writes,                 \* writes to the store by the last invocation
    saves,                  \* number of full Model.save() calls by the caller
    calls,                  \* number of Report.process() invocations
    pre,                    \* snapshot taken when Report.process was invoked
    lst,                    \* results_as_list development: the list of paths joined
    lst_out,                \* results_as_list development: value read back
    lst_pc,                 \* results_as_list development: new, set, read
    bpc,                    \* position of BaseReport.process
    outputs,                \* the report's outputs (each identified by its filepath)
    dataset,                \* rows the dataset iterator yields
    row_cleaner,            \* "base" (BaseReport.row_cleaner) or "sub" (an override)
    row_pos,                \* rows consumed from the dataset iterator
    row,                    \* the current cleaned row
    out_pos,                \* outputs served in the current loop
    outlog,                 \* per output, the calls it received in this invocation
    prior_filepaths,        \* output_filepaths when BaseReport.process was invoked
    bfault,                 \* the call of BaseReport.process that raised, or "none"
    nruns                   \* invocations of BaseReport.process

jobVars == <<stored, pc, local_results, exc, outcome, faults, handled, imports, runs,
             writes, saves, calls, pre>>
lstVars == <<lst, lst_out, lst_pc>>
baseVars == <<bpc, outputs, dataset, row_cleaner, row_pos, row, out_pos, outlog,
              prior_filepaths, bfault, nruns>>
vars == <<self, ONMYDESK_FILE_HANDLER, output_filepaths, jobVars, lstVars, baseVars>>

\* ------------------------------------------------------------ value sets
Paths == {<<"a">>, <<"b">>}

RECURSIVE SeqsUpTo(_, _)
\* all sequences over S of length at most n
SeqsUpTo(S, n) ==
    IF n = 0 THEN {<<>>}
    ELSE LET shorter == SeqsUpTo(S, n - 1) IN
         shorter \cup {Append(q, x) : q \in {r \in shorter : Len(r) = n - 1}, x \in S}

PathLists == SeqsUpTo(Paths, MaxOutputs)

\* the handler function named by settings.ONMYDESK_FILE_HANDLER: it moves the
\* file and returns the new location
Handler(filepath) == <<"u">> \o filepath

\* output_file_handler that never looks at the setting
output_file_handler_NoHandler(filepath, function_handler) == filepath

\* output_file_handler(filepath), when neither my_import nor the handler raises
output_file_handler(filepath, function_handler) ==
    IF ~function_handler.some THEN filepath ELSE Handler(filepath)


\* the test of line 76 left out
IsSaved_Always(rec) == TRUE

\* `if not self.id` (line 76) is false: the record has been persisted
IsSaved(rec) == rec.id # 0

\* self.status = Report.STATUS_PROCESSING (line 79)
MarkProcessing(rec) == [rec EXCEPT !.status = STATUS_PROCESSING]

\* self.results = ';'.join(results); self.status = Report.STATUS_PROCESSED (lines 96-98)
MarkProcessed(rec, res) == [rec EXCEPT !.results = Some(Join(res)),
                                       !.status = STATUS_PROCESSED]

\* an except clause that leaves the status alone
MarkError_Keep(rec) == rec

\* an except clause that puts the record back to pending
MarkError_Pending(rec) == [rec EXCEPT !.status = STATUS_PENDING]

\* self.status = Report.STATUS_ERROR (line 101)
MarkError(rec) == [rec EXCEPT !.status = STATUS_ERROR]

\* Model.save() with no update_fields: every field is written
SaveAll(rec) == [status |-> rec.status, process_time |-> rec.process_time,
                 results |-> rec.results]

\* a save that writes nothing
SaveStatus_Skip(row_, rec) == row_

\* a save that is not restricted to the status
SaveStatus_AllFields(row_, rec) == SaveAll(rec)

\* self.save(update_fields=['status']) applied to the persisted row
SaveStatus(row_, rec) == [row_ EXCEPT !.status = rec.status]

\* ================================================ Report (models.py)
\* Report(report='my_report_class'): a new record with the field defaults
NewRecord == [id |-> 0, status |-> STATUS_PENDING, process_time |-> None, results |-> None]

\* the parts of the state a development does not use stay at these values
InitIdleLst == lst = <<>> /\ lst_out = <<>> /\ lst_pc = "new"
InitIdleBase ==
    /\ bpc = "idle" /\ outputs = <<>> /\ dataset = <<>> /\ row_cleaner = "base"
    /\ row_pos = 0 /\ row = 0 /\ out_pos = 0 /\ outlog = <<>>
    /\ prior_filepaths = <<>> /\ nruns = 0 /\ bfault = "none"
InitIdleJob ==
    /\ stored = SaveAll(NewRecord)
    /\ pc = "idle" /\ local_results = <<>> /\ exc = "none" /\ outcome = "none"
    /\ faults = {} /\ handled = <<>> /\ imports = 0 /\ runs = 0 /\ writes = 0
    /\ saves = 0 /\ calls = 0
    /\ pre = [self |-> NewRecord, stored |-> SaveAll(NewRecord)]

Init ==
    /\ self = NewRecord
    /\ ONMYDESK_FILE_HANDLER \in {None, Some(<<"h">>)}
    /\ output_filepaths = <<>>
    /\ InitIdleJob /\ InitIdleLst /\ InitIdleBase

Snapshot == [self |-> self, stored |-> stored]

\* report.save() by the caller
Save ==
    /\ pc = "idle" /\ saves < MaxSaves
    /\ self' = [self EXCEPT !.id = 1]
    /\ stored' = SaveAll(self)
    /\ saves' = saves + 1
    /\ UNCHANGED <<ONMYDESK_FILE_HANDLER, pc, local_results, exc, outcome, faults,
                   handled, imports, runs, writes, calls, pre, output_filepaths>>

\* Report.process on a record with no id: lines 76-77
ProcessNotSaved ==
    /\ pc = "idle" /\ calls < MaxCalls
    /\ ~IsSaved(self)
    /\ calls' = calls + 1 /\ pre' = Snapshot
    /\ faults' = {} /\ handled' = <<>>
    /\ imports' = 0 /\ runs' = 0 /\ writes' = 0
    /\ exc' = "ReportNotSavedException" /\ outcome' = "raised"
    /\ UNCHANGED <<self, stored, ONMYDESK_FILE_HANDLER, pc, local_results, saves,
                   output_filepaths>>

\* Report.process on a saved record: lines 76-80
ProcessStart ==
    /\ pc = "idle" /\ calls < MaxCalls
    /\ IsSaved(self)
    /\ calls' = calls + 1 /\ pre' = Snapshot
    /\ handled' = <<>>
    /\ imports' = 0 /\ runs' = 0
    /\ self' = MarkProcessing(self)
    /\ \E ok \in BOOLEAN :
          IF ok
          THEN /\ stored' = SaveStatus(stored, self')
               /\ writes' = 1
               /\ pc' = "import" /\ outcome' = "running" /\ exc' = "none"
               /\ faults' = {}
          ELSE /\ pc' = "idle" /\ outcome' = "raised" /\ exc' = "Exception"
               /\ faults' = {"save_start"}
               /\ writes' = 0
               /\ UNCHANGED stored
    /\ UNCHANGED <<ONMYDESK_FILE_HANDLER, local_results, saves, output_filepaths>>

\* lines 82-84: resolve the class by name and construct the report
ProcessImport ==
    /\ pc = "import"
    /\ imports' = imports + 1
    /\ \E ok \in BOOLEAN :
          IF ok
          THEN /\ output_filepaths' = <<>>
               /\ pc' = "run"
               /\ UNCHANGED <<exc, outcome, faults>>
          ELSE /\ pc' = "idle" /\ outcome' = "raised" /\ exc' = "Exception"
               /\ faults' = faults \cup {"my_import"}
               /\ UNCHANGED output_filepaths
    /\ UNCHANGED <<self, stored, ONMYDESK_FILE_HANDLER, local_results, handled, runs,
                   writes, saves, calls, pre>>

\* lines 86-92: run the report, take the time, start the results list
ProcessRun ==
    /\ pc = "run"
    /\ runs' = runs + 1
    /\ \/ /\ pc' = "except"
          /\ faults' = faults \cup {"report"}
          /\ UNCHANGED <<self, output_filepaths, local_results>>
       \/ \E paths \in PathLists, t \in 1..MaxTime :
             /\ output_filepaths' = paths
             /\ self' = [self EXCEPT !.process_time = Some(t)]
             /\ local_results' = <<>>
             /\ pc' = "handle"
             /\ UNCHANGED faults
    /\ UNCHANGED <<stored, ONMYDESK_FILE_HANDLER, exc, outcome, handled, imports,
                   writes, saves, calls, pre>>

\* lines 93-94: one iteration of the loop over report.output_filepaths
ProcessHandle ==
    /\ pc = "handle"
    /\ Len(local_results) < Len(output_filepaths)
    /\ LET filepath == output_filepaths[Len(local_results) + 1] IN
       /\ handled' = Append(handled, filepath)
       /\ \/ /\ local_results' =
                   Append(local_results, output_file_handler(filepath, ONMYDESK_FILE_HANDLER))
             /\ UNCHANGED <<pc, faults>>
          \/ /\ ONMYDESK_FILE_HANDLER.some
             /\ pc' = "except"
             /\ faults' = faults \cup {"handler"}
             /\ UNCHANGED local_results
    /\ UNCHANGED <<self, stored, ONMYDESK_FILE_HANDLER, exc, outcome, imports, runs,
                   writes, saves, calls, pre, output_filepaths>>

\* lines 96-99: join the results, set processed, save the status
ProcessFinish ==
    /\ pc = "handle"
    /\ Len(local_results) = Len(output_filepaths)
    /\ self' = MarkProcessed(self, local_results)
    /\ \E ok \in BOOLEAN :
          IF ok
          THEN /\ stored' = SaveStatus(stored, self')
               /\ writes' = writes + 1
               /\ pc' = "idle" /\ outcome' = "returned"
               /\ UNCHANGED faults
          ELSE /\ pc' = "except"
               /\ faults' = faults \cup {"save_final"}
               /\ UNCHANGED <<stored, writes, outcome>>
    /\ UNCHANGED <<ONMYDESK_FILE_HANDLER, local_results, exc, handled, imports, runs,
                   saves, calls, pre, output_filepaths>>

\* lines 100-102: the except clause
ProcessExcept ==
    /\ pc = "except"
    /\ self' = MarkError(self)
    /\ pc' = "idle"
    /\ \E ok \in BOOLEAN :
          IF ok
          THEN /\ stored' = SaveStatus(stored, self')
               /\ writes' = writes + 1
               /\ outcome' = "returned"
               /\ UNCHANGED <<exc, faults>>
          ELSE /\ outcome' = "raised" /\ exc' = "Exception"
               /\ faults' = faults \cup {"save_error"}
               /\ UNCHANGED <<stored, writes>>
    /\ UNCHANGED <<ONMYDESK_FILE_HANDLER, local_results, handled, imports, runs,
                   saves, calls, pre, output_filepaths>>

Next ==
    \/ (Save /\ UNCHANGED <<lstVars, baseVars>>)
    \/ (ProcessNotSaved /\ UNCHANGED <<lstVars, baseVars>>)
    \/ (ProcessStart /\ UNCHANGED <<lstVars, baseVars>>)
    \/ (ProcessImport /\ UNCHANGED <<lstVars, baseVars>>)
    \/ (ProcessRun /\ UNCHANGED <<lstVars, baseVars>>)
    \/ (ProcessHandle /\ UNCHANGED <<lstVars, baseVars>>)
    \/ (ProcessFinish /\ UNCHANGED <<lstVars, baseVars>>)
    \/ (ProcessExcept /\ UNCHANGED <<lstVars, baseVars>>)

Spec == Init /\ [][Next]_vars

\* ------------------------------------------------ properties of Report
\* a call of Report.process has ended and nothing else has been called since
Returned == pc = "idle" /\ outcome = "returned"
Raised == pc = "idle" /\ outcome = "raised"

\* a step taken by Report.process (the caller's Save is the only other step)
ProcessStep == saves' = saves

\* C1: when Report.process on a saved record returns normally, the record's
\* status is processed or error, never pending or processing.
C1_StatusFinalAfterReturn ==
    Returned => self.status \in {STATUS_PROCESSED, STATUS_ERROR}

C1_Witness ==
    /\ Returned /\ "report" \in faults
    /\ pre.self.status = STATUS_PROCESSED
    /\ self.status = STATUS_ERROR

\* C2 as stated: every status change made by Report.process, in memory or in
\* the store, is pending->processing, processing->processed or
\* processing->error.
SpecTransitions == {<<STATUS_PENDING, STATUS_PROCESSING>>,
                    <<STATUS_PROCESSING, STATUS_PROCESSED>>,
                    <<STATUS_PROCESSING, STATUS_ERROR>>}

C2_Original ==
    [][ProcessStep =>
         /\ (self'.status # self.status => <<self.status, self'.status>> \in SpecTransitions)
         /\ (stored'.status # stored.status =>
                <<stored.status, stored'.status>> \in SpecTransitions)]_vars

\* C2 amended: Report.process enters processing from any status; from there
\* the status goes to processed or error; the in-memory status also goes
\* processed->error when saving processed fails.
C2_Transitions ==
    [][ProcessStep =>
         /\ (self'.status # self.status =>
                \/ (pc = "idle" /\ self'.status = STATUS_PROCESSING)
                \/ <<self.status, self'.status>> \in
                       SpecTransitions \cup {<<STATUS_PROCESSED, STATUS_ERROR>>})
         /\ (stored'.status # stored.status =>
                \/ (pc = "idle" /\ stored'.status = STATUS_PROCESSING)
                \/ <<stored.status, stored'.status>> \in SpecTransitions)]_vars

C2_Witness ==
    /\ pc = "except" /\ "save_final" \in faults
    /\ pre.self.status = STATUS_ERROR
    /\ self.status = STATUS_PROCESSED
    /\ stored.status = STATUS_PROCESSING

\* C3: Report.process on a record with no id raises ReportNotSavedException
\* and changes nothing: the record, the store, the count of class
\* resolutions and the count of report runs stay as they were.
C3_NotSavedNoEffect ==
    /\ [][(calls' = calls + 1 /\ self.id = 0) =>
            /\ exc' = "ReportNotSavedException" /\ outcome' = "raised" /\ pc' = "idle"
            /\ self' = self /\ stored' = stored
            /\ writes' = 0 /\ imports' = 0 /\ runs' = 0]_vars
    /\ [][(self.id = 0 /\ ProcessStep) => (pc' = "idle" /\ self' = self)]_vars

C3_Witness ==
    /\ Raised /\ exc = "ReportNotSavedException"
    /\ self = NewRecord /\ writes = 0 /\ imports = 0 /\ runs = 0

\* C4: when the report's own process() raised, Report.process leaves the
\* status at error and raises to its caller.
C4_ReportErrorRaised ==
    (pc = "idle" /\ "report" \in faults) =>
        (self.status = STATUS_ERROR /\ outcome = "raised")

\* C5: status processing is in the store before the class is resolved; when
\* my_import raises, the exception leaves process() and the stored status is
\* processing.
C5_ProcessingStoredBeforeImport ==
    /\ pc = "import" => stored.status = STATUS_PROCESSING
    /\ (pc = "idle" /\ "my_import" \in faults) =>
          (outcome = "raised" /\ exc = "Exception" /\ stored.status = STATUS_PROCESSING)

C5_Witness ==
    /\ Raised /\ "my_import" \in faults
    /\ pre.stored.status = STATUS_PENDING
    /\ stored.status = STATUS_PROCESSING

\* C6: a call that does not finish with status processed leaves results as
\* it was before the call.
C6_ResultsOnlyOnSuccess ==
    ((Returned \/ Raised) /\ ~(Returned /\ self.status = STATUS_PROCESSED))
        => self.results = pre.self.results

\* C7: after a successful call, results is the ';'-join of the report's
\* output_filepaths, each passed through output_file_handler once, in order.
Expected(filepath) ==
    IF ONMYDESK_FILE_HANDLER = None THEN filepath ELSE <<"u">> \o filepath

C7_ResultsAreHandledPathsJoined ==
    (Returned /\ self.status = STATUS_PROCESSED) =>
        /\ handled = output_filepaths
        /\ self.results.some
        /\ self.results.val =
              Join([i \in 1..Len(output_filepaths) |-> Expected(output_filepaths[i])])

C7_Witness ==
    /\ Returned /\ self.status = STATUS_PROCESSED
    /\ ONMYDESK_FILE_HANDLER # None
    /\ output_filepaths = << <<"a">>, <<"b">> >>
    /\ self.results = Some(<<"u", "a", ";", "u", "b">>)

\* C10: Report.process writes only the status: no step of it changes the
\* stored results or process_time, and when it succeeds the stored status is
\* processed while the stored results are those from before the call.
C10_OnlyStatusPersisted ==
    [][ProcessStep =>
         /\ stored'.results = stored.results
         /\ stored'.process_time = stored.process_time
         /\ ((pc # "idle" /\ pc' = "idle") =>
                /\ stored'.results = pre.stored.results
                /\ stored'.process_time = pre.stored.process_time
                /\ (outcome' = "returned" => stored'.status = self'.status))]_vars

C10_Witness ==
    /\ Returned /\ self.status = STATUS_PROCESSED
    /\ stored.status = STATUS_PROCESSED
    /\ self.results = Some(<<"a">>) /\ stored.results = None
    /\ self.process_time # None /\ stored.process_time = None

\* =================================== Report.results_as_list (models.py)
Chars == {"a", "b", SEP}
LstPaths == SeqsUpTo(Chars, MaxPathLen)
Lists == SeqsUpTo(LstPaths, MaxListLen)

InitLst ==
    /\ self = NewRecord
    /\ lst \in Lists /\ lst_out = <<>> /\ lst_pc = "new"
    /\ ONMYDESK_FILE_HANDLER = None
    /\ output_filepaths = <<>>
    /\ InitIdleJob /\ InitIdleBase

\* report.results = ';'.join(expected_results)
SetResults ==
    /\ lst_pc = "new"
    /\ self' = [self EXCEPT !.results = Some(Join(lst))]
    /\ lst_pc' = "set"
    /\ UNCHANGED <<lst, lst_out>>

\* report.results_as_list, on a record whose results is still null or was set
ReadList ==
    /\ lst_pc \in {"new", "set"}
    /\ lst_out' = ResultsAsList(self.results)
    /\ lst_pc' = IF lst_pc = "new" THEN "read_null" ELSE "read"
    /\ UNCHANGED <<self, lst>>

NextLst ==
    \/ (SetResults /\ UNCHANGED <<ONMYDESK_FILE_HANDLER, output_filepaths, jobVars, baseVars>>)
    \/ (ReadList /\ UNCHANGED <<ONMYDESK_FILE_HANDLER, output_filepaths, jobVars, baseVars>>)

SpecLst == InitLst /\ [][NextLst]_vars

HasSep(path) == \E i \in 1..Len(path) : path[i] = SEP

\* C8 as stated: results_as_list gives back every list that was joined, and
\* the empty list when results is empty or null.
C8_Original ==
    /\ lst_pc = "read" => lst_out = lst
    /\ (lst_pc \in {"read", "read_null"} /\ Falsy(self.results)) => lst_out = <<>>

\* C8 amended: results_as_list gives back the joined list when no path holds
\* a ';' and the list is not the single empty path; it is the empty list
\* when results is empty or null.
C8_SplitInvertsJoin ==
    /\ (/\ lst_pc = "read"
        /\ \A i \in 1..Len(lst) : ~HasSep(lst[i])
        /\ lst # << <<>> >>) => lst_out = lst
    /\ (lst_pc \in {"read", "read_null"} /\ Falsy(self.results)) => lst_out = <<>>

C8_Witness ==
    /\ lst_pc = "read"
    /\ lst = << <<"a", "b">>, <<"b">> >>
    /\ self.results = Some(<<"a", "b", ";", "b">>)
    /\ lst_out = lst

\* ======================================= BaseReport.process (reports.py)
Rows == {1, 2}

\* BaseReport.row_cleaner returns the row; a subclass may override it
RowCleaner(kind, r) == IF kind = "base" THEN r ELSE r + 10

\* the calls an output receives
HeaderCall == <<"header", 0>>
FooterCall == <<"footer", 0>>
OutCall(r) == <<"out", r>>

\* BaseReport(params): output_filepaths = [] (line 35)
InitBase ==
    /\ self = NewRecord
    /\ ONMYDESK_FILE_HANDLER = None
    /\ output_filepaths = <<>>
    /\ outputs \in SeqsUpTo(Paths, MaxOutputs)
    /\ dataset \in SeqsUpTo(Rows, MaxRows)
    /\ row_cleaner \in {"base", "sub"}
    /\ bpc = "idle" /\ row_pos = 0 /\ row = 0 /\ out_pos = 0
    /\ outlog = [i \in 1..Len(outputs) |-> <<>>]
    /\ prior_filepaths = <<>> /\ nruns = 0 /\ bfault = "none"
    /\ InitIdleJob /\ InitIdleLst

Log(i, call) == [outlog EXCEPT ![i] = Append(@, call)]

\* report.process() is invoked
BaseCall ==
    /\ bpc \in {"idle", "done", "raised"} /\ nruns < MaxRuns
    /\ nruns' = nruns + 1
    /\ prior_filepaths' = output_filepaths
    /\ outlog' = [i \in 1..Len(outputs) |-> <<>>]
    /\ bpc' = "enter" /\ row_pos' = 0 /\ out_pos' = 0 /\ row' = 0 /\ bfault' = "none"
    /\ UNCHANGED <<outputs, dataset, row_cleaner, output_filepaths>>

\* lines 41-43: the dataset and every output are entered
BaseEnter ==
    /\ bpc = "enter"
    /\ bpc' = "header" /\ out_pos' = 0
    /\ UNCHANGED <<outputs, dataset, row_cleaner, row_pos, row, outlog, prior_filepaths,
                   bfault, nruns, output_filepaths>>

\* lines 45-46: one header call
BaseHeader ==
    /\ bpc = "header" /\ out_pos < Len(outputs)
    /\ outlog' = Log(out_pos + 1, HeaderCall)
    /\ out_pos' = out_pos + 1
    /\ UNCHANGED <<bpc, outputs, dataset, row_cleaner, row_pos, row, prior_filepaths,
                   bfault, nruns, output_filepaths>>

\* lines 48-50: the iterator is asked for the next row, which is cleaned
BaseNextRow ==
    /\ \/ (bpc = "header" /\ out_pos = Len(outputs))
       \/ (bpc = "out" /\ out_pos = Len(outputs))
    /\ out_pos' = 0
    /\ IF row_pos < Len(dataset)
       THEN /\ row' = RowCleaner(row_cleaner, dataset[row_pos + 1])
            /\ row_pos' = row_pos + 1
            /\ bpc' = "out"
       ELSE /\ bpc' = "footer"
            /\ UNCHANGED <<row, row_pos>>
    /\ UNCHANGED <<outputs, dataset, row_cleaner, outlog, prior_filepaths, bfault, nruns,
                   output_filepaths>>

\* lines 51-52: the row goes to one output
BaseOut ==
    /\ bpc = "out" /\ out_pos < Len(outputs)
    /\ outlog' = Log(out_pos + 1, OutCall(row))
    /\ out_pos' = out_pos + 1
    /\ UNCHANGED <<bpc, outputs, dataset, row_cleaner, row_pos, row, prior_filepaths,
                   bfault, nruns, output_filepaths>>

\* lines 54-55: one footer call
BaseFooter ==
    /\ bpc = "footer" /\ out_pos < Len(outputs)
    /\ outlog' = Log(out_pos + 1, FooterCall)
    /\ out_pos' = out_pos + 1
    /\ UNCHANGED <<bpc, outputs, dataset, row_cleaner, row_pos, row, prior_filepaths,
                   bfault, nruns, output_filepaths>>

\* the assignment of line 57 made as soon as the rows are done
BaseAssign_BeforeFooters ==
    /\ bpc = "footer" /\ out_pos = 0
    /\ output_filepaths' = [i \in 1..Len(outputs) |-> outputs[i]]
    /\ bpc' = "exit"
    /\ UNCHANGED <<outputs, dataset, row_cleaner, row_pos, row, out_pos, outlog,
                   prior_filepaths, bfault, nruns>>

\* line 57: self.output_filepaths = [o.filepath for o in outputs]
BaseAssign ==
    /\ bpc = "footer" /\ out_pos = Len(outputs)
    /\ output_filepaths' = [i \in 1..Len(outputs) |-> outputs[i]]
    /\ bpc' = "exit"
    /\ UNCHANGED <<outputs, dataset, row_cleaner, row_pos, row, out_pos, outlog,
                   prior_filepaths, bfault, nruns>>

\* the with blocks are left: outputs and dataset are closed, which may raise
BaseExit ==
    /\ bpc = "exit"
    /\ \/ (bpc' = "done" /\ UNCHANGED bfault)
       \/ (bpc' = "raised" /\ bfault' = "exit")
    /\ UNCHANGED <<outputs, dataset, row_cleaner, row_pos, row, out_pos, outlog,
                   prior_filepaths, nruns, output_filepaths>>

\* the call about to be made raises: entering a context, header, the
\* iterator or row_cleaner, out, footer, or reading a filepath
BaseRaise ==
    /\ bpc \in {"enter", "header", "out", "footer"}
    /\ bfault' = IF bpc = "enter" THEN "enter"
                 ELSE IF out_pos < Len(outputs) THEN bpc
                 ELSE IF bpc = "footer" THEN "filepath" ELSE "iterate"
    /\ bpc' = "raised"
    /\ UNCHANGED <<outputs, dataset, row_cleaner, row_pos, row, out_pos, outlog,
                   prior_filepaths, nruns, output_filepaths>>

NextBase ==
    \/ (BaseCall /\ UNCHANGED <<self, ONMYDESK_FILE_HANDLER, jobVars, lstVars>>)
    \/ (BaseEnter /\ UNCHANGED <<self, ONMYDESK_FILE_HANDLER, jobVars, lstVars>>)
    \/ (BaseHeader /\ UNCHANGED <<self, ONMYDESK_FILE_HANDLER, jobVars, lstVars>>)
    \/ (BaseNextRow /\ UNCHANGED <<self, ONMYDESK_FILE_HANDLER, jobVars, lstVars>>)
    \/ (BaseOut /\ UNCHANGED <<self, ONMYDESK_FILE_HANDLER, jobVars, lstVars>>)
    \/ (BaseFooter /\ UNCHANGED <<self, ONMYDESK_FILE_HANDLER, jobVars, lstVars>>)
    \/ (BaseAssign /\ UNCHANGED <<self, ONMYDESK_FILE_HANDLER, jobVars, lstVars>>)
    \/ (BaseExit /\ UNCHANGED <<self, ONMYDESK_FILE_HANDLER, jobVars, lstVars>>)
    \/ (BaseRaise /\ UNCHANGED <<self, ONMYDESK_FILE_HANDLER, jobVars, lstVars>>)

SpecBase == InitBase /\ [][NextBase]_vars

\* ----------------------------------------- properties of BaseReport
\* what every output receives in a complete pass
FullLog ==
    <<HeaderCall>>
    \o [k \in 1..Len(dataset) |->
          OutCall(IF row_cleaner = "base" THEN dataset[k] ELSE dataset[k] + 10)]
    \o <<FooterCall>>

IsPrefix(a, b) == Len(a) <= Len(b) /\ SubSeq(b, 1, Len(a)) = a

\* the pass is over: every footer was written and line 57 was executed
PassDone == bpc \in {"exit", "done"} \/ (bpc = "raised" /\ bfault = "exit")

====
